---- MODULE Spec2Model ----
(***************************************************************************)
(* Model of the /predict pipeline of app.py (YOLOv8 weed detection API):   *)
(* model loading, the request guard, image decode, inference, the decoder  *)
(* loop, nms, the scaling loop, annotation/encoding and the response, and  *)
(* the exception handler at the request boundary.                          *)
(*                                                                         *)
(* Numbers.  Pixel quantities are integers (every float the pipeline sees  *)
(* in the model is an integer-valued float, widths and heights are even so *)
(* that width / 2 is exact).  Scores are in hundredths (25 is 0.25).  An   *)
(* IoU threshold is a pair <<num, den>> (<<1, 2>> is 0.5) and the float    *)
(* comparison iou < t is decided on the exact quotient.  A candidate whose *)
(* x_center is NaN carries nan = TRUE: every float operation on it follows *)
(* IEEE-754 (comparisons with NaN are false, int(NaN) raises).             *)
(***************************************************************************)
EXTENDS Integers, Sequences, FiniteSets, TLC

\* ------------------------------------------------------------------ bounds
\* rows of the inference output tensor (candidates per request)
MaxCand == 3
\* boxes handed to nms when it is exercised on its own
MaxBoxes == 3
\* detections handed to draw_boxes when it is exercised on its own
MaxDraw == 2
\* largest class id in the contiguous range handed to draw_boxes
MaxClassId == 6
\* largest side in the contiguous range of image sides handed to the scaling loop
MaxSide == 8

\* ------------------------------------------------------- program constants
MAX_DISPLAY_SIZE == 1024
confidence_threshold == 25
input_size == 640

VARIABLES
    session,            \* module global: "loaded" (an InferenceSession) or "none" (None)
    pc,                 \* position of the request inside predict
    orig_w, orig_h,     \* image.size
    predictions,        \* transposed output tensor: one row per candidate
    boxes, scores, class_ids,   \* decoder output / arguments of nms
    iou_threshold,      \* nms parameter, <<num, den>>
    nms_pc,             \* position inside nms: "idle", "entry", "loop", "ret"
    indices,            \* nms local: remaining indices, best score first
    keep,               \* nms local and return value
    run,                \* how many times nms has been entered on this input chain
    final_detections,   \* predict local
    scaled_detections,  \* predict local
    image_with_boxes,   \* what draw_boxes drew on the copy of the image
    exc,                \* the exception in flight (str(e)), "" when none
    response            \* what the request returned; [none |-> TRUE] before

vars == <<session, pc, orig_w, orig_h, predictions, boxes, scores, class_ids,
          iou_threshold, nms_pc, indices, keep, run, final_detections,
          scaled_detections, image_with_boxes, exc, response>>

\* ----------------------------------------------------------------- helpers
Max(a, b) == IF a >= b THEN a ELSE b
Min(a, b) == IF a <= b THEN a ELSE b

\* int(q) of the float n / d, d > 0: truncation toward zero
IntTrunc(n, d) == IF n >= 0 THEN n \div d ELSE -((-n) \div d)

\* ------------------------------------------------------------ model loading
\* try model_quantized.onnx, else model.onnx, else None; predict only tells
\* a session from None, so either InferenceSession is "loaded"
LoadSession(quantized_ok, regular_ok) ==
    IF quantized_ok THEN "loaded"
    ELSE IF regular_ok THEN "loaded"
    ELSE "none"

\* ------------------------------------------------------------------ decoder
\* np.max(class_scores)
RECURSIVE SeqMax(_)
SeqMax(s) == IF Len(s) = 1 THEN s[1] ELSE Max(s[1], SeqMax(Tail(s)))

\* np.argmax(class_scores): first index of the maximum (0-based)
ArgMax(s) == (CHOOSE i \in 1..Len(s) :
                 /\ s[i] = SeqMax(s)
                 /\ \A j \in 1..(i - 1) : s[j] # SeqMax(s)) - 1

\* variant: a non-strict test, which would emit a maximum equal to the threshold
AboveConfidenceGE(max_score) == max_score >= confidence_threshold
\* the decoder's test on a candidate's maximum class score
AboveConfidence(max_score) == max_score > confidence_threshold

\* center format to corner format
Corners(p) ==
    [x1 |-> p.x_center - p.width \div 2,
     y1 |-> p.y_center - p.height \div 2,
     x2 |-> p.x_center + p.width \div 2,
     y2 |-> p.y_center + p.height \div 2,
     nan |-> p.nan]

\* the rows the decoder loop appends for, in tensor order
Emitted(preds) == SelectSeq(preds, LAMBDA p : AboveConfidence(SeqMax(p.class_scores)))

DecodeBoxes(preds) == [i \in 1..Len(Emitted(preds)) |-> Corners(Emitted(preds)[i])]
DecodeScores(preds) == [i \in 1..Len(Emitted(preds)) |-> SeqMax(Emitted(preds)[i].class_scores)]
DecodeClassIds(preds) == [i \in 1..Len(Emitted(preds)) |-> ArgMax(Emitted(preds)[i].class_scores)]

\* ---------------------------------------------------------------------- nms
\* Index sequences hold 1-based positions (Python's index i is i + 1 here).

\* np.maximum(0, x2 - x1) * np.maximum(0, y2 - y1) for one remaining box
Intersection(a, b) ==
    Max(0, Min(a.x2, b.x2) - Max(a.x1, b.x1)) * Max(0, Min(a.y2, b.y2) - Max(a.y1, b.y1))

Area(a) == (a.x2 - a.x1) * (a.y2 - a.y1)

Union(a, b) == Area(a) + Area(b) - Intersection(a, b)

\* One element of the mask iou < iou_threshold, iou = intersection / union in
\* floating point: NaN (a NaN operand, or 0 / 0) and +inf (x / 0, x > 0) are
\* not below any threshold; a negative union flips the cross-multiplication.
\* variant: the mask iou <= iou_threshold
IouBelowOrEqual(a, b, t) ==
    IF a.nan \/ b.nan THEN FALSE
    ELSE IF Union(a, b) = 0 THEN FALSE
    ELSE IF Union(a, b) > 0 THEN Intersection(a, b) * t[2] <= t[1] * Union(a, b)
    ELSE Intersection(a, b) * t[2] >= t[1] * Union(a, b)
\* the mask element as the code computes it (strict)
IouBelow(a, b, t) ==
    IF a.nan \/ b.nan THEN FALSE
    ELSE IF Union(a, b) = 0 THEN FALSE
    ELSE IF Union(a, b) > 0 THEN Intersection(a, b) * t[2] < t[1] * Union(a, b)
    ELSE Intersection(a, b) * t[2] > t[1] * Union(a, b)

\* variant: per-class suppression, where only a box of the same class is removed
StaysPerClass(current, j) ==
    \/ class_ids[current] # class_ids[j]
    \/ IouBelow(boxes[current], boxes[j], iou_threshold)
\* the test that lets a remaining index j stay after current was kept
Stays(current, j) == IouBelow(boxes[current], boxes[j], iou_threshold)

\* variant: a mask that also lets a box at exactly the threshold stay
RemainingAtThreshold(ind) ==
    SelectSeq(Tail(ind), LAMBDA j : IouBelowOrEqual(boxes[ind[1]], boxes[j], iou_threshold))
\* indices[1:][iou < iou_threshold]
Remaining(ind) == SelectSeq(Tail(ind), LAMBDA j : Stays(ind[1], j))

\* variant: np.argsort(scores) without the reversal, scores ascending
ArgsortedAscending(sc) ==
    {ord \in [1..Len(sc) -> 1..Len(sc)] :
        /\ \A i, j \in 1..Len(sc) : i # j => ord[i] # ord[j]
        /\ \A i \in 1..(Len(sc) - 1) : sc[ord[i]] <= sc[ord[i + 1]]}
\* np.argsort(scores)[::-1]: the orders of all indices with scores descending;
\* the default sort kind is not stable, so equal scores come in any order
Argsorted(sc) ==
    {ord \in [1..Len(sc) -> 1..Len(sc)] :
        /\ \A i, j \in 1..Len(sc) : i # j => ord[i] # ord[j]
        /\ \A i \in 1..(Len(sc) - 1) : sc[ord[i]] >= sc[ord[i + 1]]}

\* variant: while len(indices) > 1, which never keeps the last remaining index
LoopContinuesOffByOne(ind) == Len(ind) > 1
\* while len(indices) > 0
LoopContinues(ind) == Len(ind) > 0

\* entry of nms: the empty-input return, else the sort and keep = []
NmsEntry ==
    /\ nms_pc = "entry"
    /\ IF Len(boxes) = 0
       THEN /\ keep' = <<>>
            /\ indices' = <<>>
            /\ nms_pc' = "ret"
       ELSE /\ \E ord \in Argsorted(scores) : indices' = ord
            /\ keep' = <<>>
            /\ nms_pc' = "loop"
    /\ UNCHANGED image_with_boxes
    /\ UNCHANGED <<session, pc, orig_w, orig_h, predictions, boxes, scores, class_ids,
                   iou_threshold, run, final_detections, scaled_detections, exc, response>>

\* one iteration of the while loop
NmsIter ==
    /\ nms_pc = "loop"
    /\ LoopContinues(indices)
    /\ keep' = Append(keep, indices[1])
    /\ IF Len(indices) = 1
       THEN /\ nms_pc' = "ret"
            /\ UNCHANGED indices
       ELSE /\ indices' = Remaining(indices)
            /\ UNCHANGED nms_pc
    /\ UNCHANGED image_with_boxes
    /\ UNCHANGED <<session, pc, orig_w, orig_h, predictions, boxes, scores, class_ids,
                   iou_threshold, run, final_detections, scaled_detections, exc, response>>

\* the loop condition fails: return keep
NmsExit ==
    /\ nms_pc = "loop"
    /\ ~LoopContinues(indices)
    /\ nms_pc' = "ret"
    /\ UNCHANGED image_with_boxes
    /\ UNCHANGED <<session, pc, orig_w, orig_h, predictions, boxes, scores, class_ids,
                   iou_threshold, indices, keep, run, final_detections,
                   scaled_detections, exc, response>>

\* ---------------------------------------------------------- coordinate mapper
\* variant: the clamp to the last pixel index, orig - 1
ScaleCoordClampInside(v, orig) == Max(0, Min(IntTrunc(v * orig, input_size), orig - 1))
\* variant: the scaling without the clamp
ScaleCoordNoClamp(v, orig) == IntTrunc(v * orig, input_size)
\* int(v * orig / input_size), then max(0, min(., orig))
ScaleCoord(v, orig) == Max(0, Min(IntTrunc(v * orig, input_size), orig))

\* one pass of the scaling loop body for a detection with finite coordinates
ScaleDetection(d, w, h) ==
    [x1 |-> ScaleCoord(d.x1, w), y1 |-> ScaleCoord(d.y1, h),
     x2 |-> ScaleCoord(d.x2, w), y2 |-> ScaleCoord(d.y2, h),
     conf |-> d.conf, cls_id |-> d.cls_id]

\* detections before the first one on which int() raises (all, when none does)
FinitePrefixLen(dets) ==
    IF \E i \in 1..Len(dets) : dets[i].nan
    THEN (CHOOSE i \in 1..Len(dets) :
             dets[i].nan /\ \A j \in 1..(i - 1) : ~dets[j].nan) - 1
    ELSE Len(dets)

ScaleAll(dets, w, h) == [i \in 1..FinitePrefixLen(dets) |-> ScaleDetection(dets[i], w, h)]

\* ------------------------------------------------------------------ annotator
class_names == <<"Clover", "Crabgrass", "Gamochaeta", "Sphagneticola", "Syndrella">>
colors == <<"red", "green", "blue", "yellow", "purple", "orange">>

\* Python's seq[i]: <<"ok", item>>, negative i counting from the end, or
\* <<"IndexError">> when i is out of range
Subscript(seq, i) ==
    IF i \in 0..(Len(seq) - 1) THEN <<"ok", seq[i + 1]>>
    ELSE IF i \in (-Len(seq))..(-1) THEN <<"ok", seq[Len(seq) + i + 1]>>
    ELSE <<"IndexError">>

\* A name is the sequence of the parts of its text: <<"Clover">>, and
\* <<"class_", 99>> for f"class_{cls_id}".
\* variant: class_names[cls_id] without the range test
ClassNameUnguarded(cls_id) ==
    IF Subscript(class_names, cls_id)[1] = "ok"
    THEN <<"ok", <<Subscript(class_names, cls_id)[2]>>>>
    ELSE <<"IndexError">>
\* class_names[cls_id] if cls_id < len(class_names) else f"class_{cls_id}"
ClassName(cls_id) ==
    IF cls_id < Len(class_names)
    THEN IF Subscript(class_names, cls_id)[1] = "ok"
         THEN <<"ok", <<Subscript(class_names, cls_id)[2]>>>>
         ELSE <<"IndexError">>
    ELSE <<"ok", <<"class_", cls_id>>>>

\* colors[cls_id % len(colors)]; Python's % is non-negative for a positive modulus
Color(cls_id) == Subscript(colors, cls_id % Len(colors))

\* the loop body of draw_boxes raises on this detection
DrawRaises(d) == ClassName(d.cls_id)[1] # "ok" \/ Color(d.cls_id)[1] # "ok"

\* what the loop body draws for one detection: the outline in the class colour
\* and the label f"{cls_name}: {conf:.2f}" (conf in hundredths) on a filled
\* background of the same colour; the label's pixel position depends on the
\* font and is left out
Annotation(d) ==
    [x1 |-> d.x1, y1 |-> d.y1, x2 |-> d.x2, y2 |-> d.y2,
     cls_id |-> d.cls_id,
     outline |-> Color(d.cls_id)[2],
     label |-> [cls_name |-> ClassName(d.cls_id)[2], conf |-> d.conf],
     fill |-> Color(d.cls_id)[2]]

\* detections drawn before the first one that raises (all, when none does)
DrawnPrefixLen(dets) ==
    IF \E i \in 1..Len(dets) : DrawRaises(dets[i])
    THEN (CHOOSE i \in 1..Len(dets) :
             DrawRaises(dets[i]) /\ \A j \in 1..(i - 1) : ~DrawRaises(dets[j])) - 1
    ELSE Len(dets)

\* draw_boxes: one annotation per detection handed to it
DrawBoxes(dets) == [i \in 1..DrawnPrefixLen(dets) |-> Annotation(dets[i])]

Abs(n) == IF n >= 0 THEN n ELSE -n

\* image_with_boxes.size after the optional thumbnail((1024, 1024)): the other
\* side is the floor or the ceiling of the exact quotient, whichever keeps the
\* aspect ratio closer (the floor on a tie), and at least 1
ProcessedSize(w, h) ==
    IF Max(w, h) <= MAX_DISPLAY_SIZE THEN [width |-> w, height |-> h]
    ELSE IF h >= w
    THEN LET f == (MAX_DISPLAY_SIZE * w) \div h
             c == IF f * h = MAX_DISPLAY_SIZE * w THEN f ELSE f + 1
             x == IF Abs(MAX_DISPLAY_SIZE * w - f * h) <= Abs(MAX_DISPLAY_SIZE * w - c * h)
                  THEN f ELSE c
         IN  [width |-> Max(x, 1), height |-> MAX_DISPLAY_SIZE]
    ELSE LET f == (MAX_DISPLAY_SIZE * h) \div w
             c == IF f * w = MAX_DISPLAY_SIZE * h THEN f ELSE f + 1
             y == IF f = 0 THEN 0
                  ELSE IF Abs(w * f - MAX_DISPLAY_SIZE * h) * c <= Abs(w * c - MAX_DISPLAY_SIZE * h) * f
                  THEN f ELSE c
         IN  [width |-> MAX_DISPLAY_SIZE, height |-> Max(y, 1)]

\* ---------------------------------------------------------- response assembler
\* detections_json: built from final_detections
DetectionsJson(dets) ==
    [i \in 1..Len(dets) |->
        [x1 |-> dets[i].x1, y1 |-> dets[i].y1, x2 |-> dets[i].x2, y2 |-> dets[i].y2,
         confidence |-> dets[i].conf, class_id |-> dets[i].cls_id]]

\* variant: an empty detection list answered as an error
NoDetectionsIsError(final, drawn, w, h) ==
    IF Len(final) = 0
    THEN [status_code |-> 404, content |-> [error |-> "No detections"]]
    ELSE [status_code |-> 200,
          content |->
             [detections |-> DetectionsJson(final),
              detection_count |-> Len(final),
              image_base64 |-> [format |-> "jpeg", drawn |-> drawn,
                                size |-> ProcessedSize(w, h)],
              original_size |-> [width |-> w, height |-> h],
              processed_size |-> ProcessedSize(w, h)]]
\* the JSONResponse returned at the end of the try block
SuccessResponse(final, drawn, w, h) ==
    [status_code |-> 200,
     content |->
        [detections |-> DetectionsJson(final),
         detection_count |-> Len(final),
         image_base64 |-> [format |-> "jpeg", drawn |-> drawn,
                           size |-> ProcessedSize(w, h)],
         original_size |-> [width |-> w, height |-> h],
         processed_size |-> ProcessedSize(w, h)]]

\* variant: a missing session answered as zero detections
EmptyDetectionsResponse ==
    [status_code |-> 200,
     content |-> [detections |-> <<>>, detection_count |-> 0]]
\* the response of the guard at the head of predict
ModelNotLoadedResponse ==
    [status_code |-> 500, content |-> [error |-> "Model not loaded"]]

\* variant: a handler that also returns what had been computed so far
ErrorWithPartialResults(e) ==
    [status_code |-> 500,
     content |-> [error |-> e, detections |-> DetectionsJson(final_detections),
                  detection_count |-> Len(final_detections)]]
\* the response of the exception handler
ErrorResponse(e) == [status_code |-> 500, content |-> [error |-> e]]

\* nothing returned yet
NoResponse == [status_code |-> 0, content |-> [pending |-> TRUE]]

\* --------------------------------------------------------------------- inputs
\* uploaded image sizes: one above the display cap, one below, neither 640 x 640
ImageSizes == {<<1280, 480>>, <<100, 37>>}

\* candidate geometry in model-input pixels <<x_center, y_center, width, height, nan>>:
\* the full frame (corners exactly on 0 and 640), the same box shifted left
\* (negative x1) and shifted right (x2 beyond 640), each 0.6 IoU with the full
\* frame and 1/3 with the other, and a candidate whose x_center is NaN
Geometries ==
    {<<160, 320, 640, 640, FALSE>>,
     <<320, 320, 640, 640, FALSE>>,
     <<480, 320, 640, 640, FALSE>>,
     <<320, 320, 640, 640, TRUE>>}

\* class-score vectors (hundredths): maximum equal to the threshold, and three
\* distinct maxima above it, on class 0, class 1 and tied on both classes
ClassScores == {<<10, 25>>, <<90, 30>>, <<30, 60>>, <<30, 30>>}

PredictionRows ==
    {[x_center |-> g[1], y_center |-> g[2], width |-> g[3], height |-> g[4],
      nan |-> g[5], class_scores |-> cs] : g \in Geometries, cs \in ClassScores}

\* outputs[0][0].T for every candidate count up to the bound
Tensors == UNION {[1..n -> PredictionRows] : n \in 0..MaxCand}

\* -------------------------------------------------------------------- predict
Init ==
    /\ \E quantized_ok, regular_ok \in BOOLEAN :
          session = LoadSession(quantized_ok, regular_ok)
    /\ pc = "request"
    /\ orig_w = 0 /\ orig_h = 0
    /\ predictions = <<>>
    /\ boxes = <<>> /\ scores = <<>> /\ class_ids = <<>>
    /\ iou_threshold = <<1, 2>>
    /\ nms_pc = "idle"
    /\ indices = <<>> /\ keep = <<>>
    /\ run = 0
    /\ final_detections = <<>>
    /\ scaled_detections = <<>>
    /\ image_with_boxes = <<>>
    /\ exc = ""
    /\ response = NoResponse

\* if session is None: return the 500 response, before the try block
Guard ==
    /\ pc = "request"
    /\ IF session = "none"
       THEN /\ response' = ModelNotLoadedResponse
            /\ pc' = "done"
       ELSE /\ pc' = "read"
            /\ UNCHANGED response
    /\ UNCHANGED image_with_boxes
    /\ UNCHANGED <<session, orig_w, orig_h, predictions, boxes, scores, class_ids,
                   iou_threshold, nms_pc, indices, keep, run, final_detections,
                   scaled_detections, exc>>

\* file.read(), Image.open(...).convert("RGB"), image.size
ReadImage ==
    /\ pc = "read"
    /\ \E decodable \in BOOLEAN, size \in ImageSizes :
          IF decodable
          THEN /\ orig_w' = size[1]
               /\ orig_h' = size[2]
               /\ pc' = "infer"
               /\ UNCHANGED exc
          ELSE /\ exc' = "cannot identify image file"
               /\ pc' = "except"
               /\ UNCHANGED <<orig_w, orig_h>>
    /\ UNCHANGED image_with_boxes
    /\ UNCHANGED <<session, predictions, boxes, scores, class_ids, iou_threshold,
                   nms_pc, indices, keep, run, final_detections, scaled_detections,
                   response>>

\* preprocess, session.get_inputs, session.run, outputs[0][0].T
Infer ==
    /\ pc = "infer"
    /\ IF session = "none"
       THEN /\ exc' = "'NoneType' object has no attribute 'get_inputs'"
            /\ pc' = "except"
            /\ UNCHANGED predictions
       ELSE \E run_ok \in BOOLEAN, out \in Tensors :
               IF run_ok
               THEN /\ predictions' = out
                    /\ pc' = "decode"
                    /\ UNCHANGED exc
               ELSE /\ exc' = "inference failed"
                    /\ pc' = "except"
                    /\ UNCHANGED predictions
    /\ UNCHANGED image_with_boxes
    /\ UNCHANGED <<session, orig_w, orig_h, boxes, scores, class_ids, iou_threshold,
                   nms_pc, indices, keep, run, final_detections, scaled_detections,
                   response>>

\* the decoder loop over the prediction rows
Decode ==
    /\ pc = "decode"
    /\ boxes' = DecodeBoxes(predictions)
    /\ scores' = DecodeScores(predictions)
    /\ class_ids' = DecodeClassIds(predictions)
    /\ pc' = "suppress"
    /\ UNCHANGED image_with_boxes
    /\ UNCHANGED <<session, orig_w, orig_h, predictions, iou_threshold, nms_pc,
                   indices, keep, run, final_detections, scaled_detections, exc,
                   response>>

\* if len(boxes) > 0: keep_indices = nms(boxes, scores, iou_threshold=0.5)
\* else: final_detections = []
Suppress ==
    /\ pc = "suppress"
    /\ IF Len(boxes) > 0
       THEN /\ iou_threshold' = <<1, 2>>
            /\ nms_pc' = "entry"
            /\ run' = run + 1
            /\ pc' = "nms"
            /\ UNCHANGED final_detections
       ELSE /\ final_detections' = <<>>
            /\ pc' = "scale"
            /\ UNCHANGED <<iou_threshold, nms_pc, run>>
    /\ UNCHANGED image_with_boxes
    /\ UNCHANGED <<session, orig_w, orig_h, predictions, boxes, scores, class_ids,
                   indices, keep, scaled_detections, exc, response>>

\* nms has returned: build final_detections from keep_indices
Filter ==
    /\ pc = "nms"
    /\ nms_pc = "ret"
    /\ final_detections' =
          [i \in 1..Len(keep) |->
              [x1 |-> boxes[keep[i]].x1, y1 |-> boxes[keep[i]].y1,
               x2 |-> boxes[keep[i]].x2, y2 |-> boxes[keep[i]].y2,
               nan |-> boxes[keep[i]].nan,
               conf |-> scores[keep[i]], cls_id |-> class_ids[keep[i]]]]
    /\ nms_pc' = "idle"
    /\ pc' = "scale"
    /\ UNCHANGED image_with_boxes
    /\ UNCHANGED <<session, orig_w, orig_h, predictions, boxes, scores, class_ids,
                   iou_threshold, indices, keep, run, scaled_detections, exc, response>>

\* the scaling loop; int() of a NaN coordinate raises ValueError
Scale ==
    /\ pc = "scale"
    /\ scaled_detections' = ScaleAll(final_detections, orig_w, orig_h)
    /\ IF FinitePrefixLen(final_detections) < Len(final_detections)
       THEN /\ exc' = "cannot convert float NaN to integer"
            /\ pc' = "except"
       ELSE /\ pc' = "draw"
            /\ UNCHANGED exc
    /\ UNCHANGED image_with_boxes
    /\ UNCHANGED <<session, orig_w, orig_h, predictions, boxes, scores, class_ids,
                   iou_threshold, nms_pc, indices, keep, run, final_detections,
                   response>>

\* image_with_boxes = draw_boxes(image.copy(), scaled_detections); an exception
\* inside draw_boxes leaves it at the statement that raised
Draw ==
    /\ pc = "draw"
    /\ image_with_boxes' = DrawBoxes(scaled_detections)
    /\ IF DrawnPrefixLen(scaled_detections) < Len(scaled_detections)
       THEN /\ exc' = "list index out of range"
            /\ pc' = "except"
       ELSE /\ pc' = "respond"
            /\ UNCHANGED exc
    /\ UNCHANGED <<session, orig_w, orig_h, predictions, boxes, scores, class_ids,
                   iou_threshold, nms_pc, indices, keep, run, final_detections,
                   scaled_detections, response>>

\* thumbnail, JPEG + base64, detections_json, return JSONResponse
Respond ==
    /\ pc = "respond"
    /\ response' = SuccessResponse(final_detections, image_with_boxes, orig_w, orig_h)
    /\ pc' = "done"
    /\ UNCHANGED image_with_boxes
    /\ UNCHANGED <<session, orig_w, orig_h, predictions, boxes, scores, class_ids,
                   iou_threshold, nms_pc, indices, keep, run, final_detections,
                   scaled_detections, exc>>

\* except Exception as e: return the 500 response
Except ==
    /\ pc = "except"
    /\ response' = ErrorResponse(exc)
    /\ pc' = "done"
    /\ UNCHANGED image_with_boxes
    /\ UNCHANGED <<session, orig_w, orig_h, predictions, boxes, scores, class_ids,
                   iou_threshold, nms_pc, indices, keep, run, final_detections,
                   scaled_detections, exc>>

Next ==
    \/ Guard
    \/ ReadImage
    \/ Infer
    \/ Decode
    \/ Suppress
    \/ NmsEntry
    \/ NmsIter
    \/ NmsExit
    \/ Filter
    \/ Scale
    \/ Draw
    \/ Respond
    \/ Except

Spec == Init /\ [][Next]_vars

\* ------------------------------------------------------------ nms on its own
\* boxes <<x1, y1, x2, y2, nan>>: a 4 x 4 square, its lower half (IoU 1/2 with
\* it), the square shifted by one (IoU 3/5 with it, 1/3 with the half), two
\* zero-area boxes, a box with x1 > x2 (negative area), and a NaN box
NmsBoxes ==
    {<<0, 0, 4, 4, FALSE>>,
     <<0, 0, 4, 2, FALSE>>,
     <<1, 0, 5, 4, FALSE>>,
     <<1, 1, 1, 1, FALSE>>,
     <<3, 3, 3, 5, FALSE>>,
     <<4, 0, 0, 4, FALSE>>,
     <<0, 0, 4, 4, TRUE>>}

NmsScores == {60, 90}

NmsThresholds == {<<1, 2>>, <<1, 3>>}

NmsCandidates ==
    {[box |-> [x1 |-> b[1], y1 |-> b[2], x2 |-> b[3], y2 |-> b[4], nan |-> b[5]],
      score |-> sc] : b \in NmsBoxes, sc \in NmsScores}

NmsInputs == UNION {[1..n -> NmsCandidates] : n \in 0..MaxBoxes}

\* a call nms(boxes, scores, iou_threshold) from outside predict
InitNms ==
    /\ session = "loaded"
    /\ pc = "nms"
    /\ orig_w = 0 /\ orig_h = 0
    /\ predictions = <<>>
    /\ \E inp \in NmsInputs :
          /\ boxes = [i \in 1..Len(inp) |-> inp[i].box]
          /\ scores = [i \in 1..Len(inp) |-> inp[i].score]
    /\ class_ids = <<>>
    /\ iou_threshold \in NmsThresholds
    /\ nms_pc = "entry"
    /\ indices = <<>> /\ keep = <<>>
    /\ run = 1
    /\ final_detections = <<>>
    /\ scaled_detections = <<>>
    /\ image_with_boxes = <<>>
    /\ exc = ""
    /\ response = NoResponse

\* nms called again on exactly the boxes and scores its first result selected
Rerun ==
    /\ nms_pc = "ret"
    /\ run = 1
    /\ boxes' = [i \in 1..Len(keep) |-> boxes[keep[i]]]
    /\ scores' = [i \in 1..Len(keep) |-> scores[keep[i]]]
    /\ run' = 2
    /\ nms_pc' = "entry"
    /\ indices' = <<>>
    /\ keep' = <<>>
    /\ UNCHANGED image_with_boxes
    /\ UNCHANGED <<session, pc, orig_w, orig_h, predictions, class_ids, iou_threshold,
                   final_detections, scaled_detections, exc, response>>

NextNms ==
    \/ NmsEntry
    \/ NmsIter
    \/ NmsExit
    \/ Rerun

SpecNms == InitNms /\ [][NextNms]_vars

\* candidates for the runs to completion, at the default iou_threshold=0.5: the
\* square, the box at IoU exactly 1/2 with it, a zero-area box and a NaN box
FairBoxes ==
    {<<0, 0, 4, 4, FALSE>>,
     <<0, 0, 4, 2, FALSE>>,
     <<1, 1, 1, 1, FALSE>>,
     <<0, 0, 4, 4, TRUE>>}

FairCandidates ==
    {[box |-> [x1 |-> b[1], y1 |-> b[2], x2 |-> b[3], y2 |-> b[4], nan |-> b[5]],
      score |-> sc] : b \in FairBoxes, sc \in NmsScores}

FairInputs == UNION {[1..n -> FairCandidates] : n \in 0..MaxBoxes}

InitNmsFair ==
    /\ session = "loaded"
    /\ pc = "nms"
    /\ orig_w = 0 /\ orig_h = 0
    /\ predictions = <<>>
    /\ \E inp \in FairInputs :
          /\ boxes = [i \in 1..Len(inp) |-> inp[i].box]
          /\ scores = [i \in 1..Len(inp) |-> inp[i].score]
    /\ class_ids = <<>>
    /\ iou_threshold = <<1, 2>>
    /\ nms_pc = "entry"
    /\ indices = <<>> /\ keep = <<>>
    /\ run = 1
    /\ final_detections = <<>>
    /\ scaled_detections = <<>>
    /\ image_with_boxes = <<>>
    /\ exc = ""
    /\ response = NoResponse

\* the body of nms is straight-line Python: once called it runs each of its
\* steps; whether a caller runs it again is up to the caller
SpecNmsFair ==
    InitNmsFair /\ [][NextNms]_vars /\ WF_vars(NmsEntry \/ NmsIter \/ NmsExit)

\* ------------------------------------------------------ draw_boxes on its own
\* class ids on both sides of the 5-entry class table and of the 6-entry
\* palette, and 99
DrawClassIds == (0..MaxClassId) \cup {99}

\* detections [x1, y1, x2, y2, conf, cls_id] in the pixels of a 100 x 37 image
DrawDetections ==
    {[x1 |-> b[1], y1 |-> b[2], x2 |-> b[3], y2 |-> b[4], conf |-> cf, cls_id |-> c] :
        b \in {<<0, 0, 75, 37>>, <<10, 2, 50, 30>>}, cf \in {30, 90}, c \in DrawClassIds}

DrawInputs == UNION {[1..n -> DrawDetections] : n \in 0..MaxDraw}

\* a call draw_boxes(image, detections) from outside the decoder
InitDraw ==
    /\ session = "loaded"
    /\ pc = "draw"
    /\ orig_w = 100 /\ orig_h = 37
    /\ predictions = <<>>
    /\ boxes = <<>> /\ scores = <<>> /\ class_ids = <<>>
    /\ iou_threshold = <<1, 2>>
    /\ nms_pc = "idle"
    /\ indices = <<>> /\ keep = <<>>
    /\ run = 0
    /\ final_detections = <<>>
    /\ scaled_detections \in DrawInputs
    /\ image_with_boxes = <<>>
    /\ exc = ""
    /\ response = NoResponse

NextDraw == Draw

SpecDraw == InitDraw /\ [][NextDraw]_vars

\* ------------------------------------------------------ scaling loop on its own
\* image sides: every small side, sides that do not divide 640, 640 itself and
\* sides above it
ScaleSides == (1..MaxSide) \cup {37, 100, 480, 640, 1280}

\* corner pairs <<low, high>> in model-input pixels: exactly on the boundary
\* of the 640 x 640 input, one pixel outside it and one pixel inside it
BoundaryPairs == {<<0, 640>>, <<-1, 641>>, <<1, 639>>}

\* one surviving detection per request
ScaleInputs ==
    {<<[x1 |-> xs[1], y1 |-> ys[1], x2 |-> xs[2], y2 |-> ys[2], nan |-> FALSE,
        conf |-> 90, cls_id |-> 0]>> : xs \in BoundaryPairs, ys \in BoundaryPairs}

\* predict at the head of the scaling loop
InitScale ==
    /\ session = "loaded"
    /\ pc = "scale"
    /\ orig_w \in ScaleSides /\ orig_h \in ScaleSides
    /\ predictions = <<>>
    /\ boxes = <<>> /\ scores = <<>> /\ class_ids = <<>>
    /\ iou_threshold = <<1, 2>>
    /\ nms_pc = "idle"
    /\ indices = <<>> /\ keep = <<>>
    /\ run = 1
    /\ final_detections \in ScaleInputs
    /\ scaled_detections = <<>>
    /\ image_with_boxes = <<>>
    /\ exc = ""
    /\ response = NoResponse

NextScale == Scale

SpecScale == InitScale /\ [][NextScale]_vars

\* ===================================================================== claims

\* the elements of a sequence
Range(s) == {s[i] : i \in 1..Len(s)}

\* the two kinds of response body
IsDetectionResponse(r) ==
    /\ r.status_code \in 200..299
    /\ DOMAIN r.content = {"detections", "detection_count", "image_base64",
                           "original_size", "processed_size"}
IsErrorResponse(r) ==
    /\ r.status_code # 0
    /\ r.status_code \notin 200..299
    /\ DOMAIN r.content = {"error"}

\* IoU of two boxes as a number, compared on the exact quotient
IoULessThan(a, b, t) ==
    /\ ~a.nan /\ ~b.nan
    /\ Union(a, b) # 0
    /\ Union(a, b) > 0 => Intersection(a, b) * t[2] < t[1] * Union(a, b)
    /\ Union(a, b) < 0 => Intersection(a, b) * t[2] > t[1] * Union(a, b)
IoUGreaterThan(a, b, t) ==
    /\ ~a.nan /\ ~b.nan
    /\ Union(a, b) > 0
    /\ Intersection(a, b) * t[2] > t[1] * Union(a, b)

\* C1: every detection of a successful /predict response is in original-image
\* pixel space (the scaled and clamped coordinates) and within
\* 0 <= x <= original width, 0 <= y <= original height.
C1_ResponseDetectionsInOriginalSpace ==
    response.status_code = 200 =>
        \A i \in 1..Len(response.content.detections) :
            LET d == response.content.detections[i]
                f == final_detections[i]
            IN  /\ 0 <= d.x1 /\ d.x1 <= orig_w /\ 0 <= d.x2 /\ d.x2 <= orig_w
                /\ 0 <= d.y1 /\ d.y1 <= orig_h /\ 0 <= d.y2 /\ d.y2 <= orig_h
                /\ d.x1 = ScaleCoord(f.x1, orig_w) /\ d.x2 = ScaleCoord(f.x2, orig_w)
                /\ d.y1 = ScaleCoord(f.y1, orig_h) /\ d.y2 = ScaleCoord(f.y2, orig_h)

\* C2: when nms returns, any two distinct kept indices have IoU strictly below
\* iou_threshold.
C2_KeptPairsBelowThreshold ==
    nms_pc = "ret" =>
        \A a, b \in Range(keep) :
            a # b => IoULessThan(boxes[a], boxes[b], iou_threshold)

C2_Witness ==
    /\ nms_pc = "ret"
    /\ run = 1
    /\ Len(keep) >= 2
    /\ Len(keep) < Len(boxes)

\* C3: two zero-area candidates with zero intersection (union 0) do not suppress
\* each other: with finite boxes, both are in the keep list nms returns.
C3_ZeroAreaPairBothKept ==
    (nms_pc = "ret" /\ run = 1 /\ \A k \in 1..Len(boxes) : ~boxes[k].nan) =>
        \A i, j \in 1..Len(boxes) :
            (i # j /\ Area(boxes[i]) = 0 /\ Area(boxes[j]) = 0
                 /\ Union(boxes[i], boxes[j]) = 0) =>
                (i \in Range(keep) /\ j \in Range(keep))

\* C4: the decoder emits a candidate exactly for the rows whose maximum class
\* score is strictly above the confidence threshold (a maximum equal to the
\* threshold is discarded); the emitted score is that maximum and class_id its
\* index.
C4_DecoderEmitsOnlyAboveThreshold ==
    /\ \A i \in 1..Len(scores) :
          /\ scores[i] > confidence_threshold
          /\ \E r \in 1..Len(predictions) :
                LET cs == predictions[r].class_scores
                IN  /\ class_ids[i] + 1 \in 1..Len(cs)
                    /\ cs[class_ids[i] + 1] = scores[i]
                    /\ \A k \in 1..Len(cs) : cs[k] <= scores[i]
    /\ pc # "decode" =>
          Len(scores) = Cardinality({r \in 1..Len(predictions) :
                            \E k \in 1..Len(predictions[r].class_scores) :
                                predictions[r].class_scores[k] > confidence_threshold})
    /\ Len(boxes) = Len(scores) /\ Len(class_ids) = Len(scores)

C4_Witness ==
    /\ pc = "suppress"
    /\ Len(scores) >= 1
    /\ \E r \in 1..Len(predictions) :
          LET cs == predictions[r].class_scores
          IN  /\ \E k \in 1..Len(cs) : cs[k] = confidence_threshold
              /\ \A k \in 1..Len(cs) : cs[k] <= confidence_threshold

\* C5: every detection the scaling loop appends has x1, x2 in [0, orig_w] and
\* y1, y2 in [0, orig_h], and when the loop completes it has appended one for
\* every surviving box.
C5_ScaledWithinImage ==
    /\ \A i \in 1..Len(scaled_detections) :
          LET d == scaled_detections[i]
          IN  /\ 0 <= d.x1 /\ d.x1 <= orig_w /\ 0 <= d.x2 /\ d.x2 <= orig_w
              /\ 0 <= d.y1 /\ d.y1 <= orig_h /\ 0 <= d.y2 /\ d.y2 <= orig_h
    /\ pc \in {"draw", "respond"} => Len(scaled_detections) = Len(final_detections)

C5_Witness ==
    /\ pc = "respond"
    /\ orig_w > 0 /\ orig_h > 0
    /\ \E i \in 1..Len(final_detections) : final_detections[i].x1 < 0
    /\ \E i \in 1..Len(final_detections) : final_detections[i].x2 > input_size
    /\ Len(scaled_detections) >= 2

\* C6: nms run again on the boxes and scores its first result selected keeps
\* every one of them.
C6_NmsIdempotent ==
    (run = 2 /\ nms_pc = "ret") => Range(keep) = 1..Len(boxes)

C6_Witness ==
    /\ run = 2
    /\ nms_pc = "ret"
    /\ Len(keep) >= 2

\* positions of predict at which suppression is over (keep is final)
AfterSuppression == pc \in {"scale", "draw", "respond", "except", "done"}

\* C7 as stated: of two candidates with IoU above 0.5, only the higher-scoring
\* one is in the final detections, i.e. the lower-scoring one never is,
\* whatever their class ids.
C7_OnlyHigherScoringSurvives ==
    AfterSuppression =>
        \A i, j \in 1..Len(boxes) :
            (scores[i] > scores[j] /\ IoUGreaterThan(boxes[i], boxes[j], <<1, 2>>)) =>
                j \notin Range(keep)

\* C7 amended: two candidates with IoU above 0.5 are never both in the final
\* detections, whether their class ids are equal or different (the
\* higher-scoring one may itself have been suppressed by a third candidate,
\* and then the lower-scoring one can survive); when they are the only two
\* candidates, exactly the higher-scoring one is kept.
C7_OverlappingPairNeverBothKept ==
    AfterSuppression =>
        /\ \A i, j \in 1..Len(boxes) :
              (i # j /\ IoUGreaterThan(boxes[i], boxes[j], <<1, 2>>)) =>
                  ~(i \in Range(keep) /\ j \in Range(keep))
        /\ \A i, j \in 1..Len(boxes) :
              (Len(boxes) = 2 /\ scores[i] > scores[j]
                  /\ IoUGreaterThan(boxes[i], boxes[j], <<1, 2>>)) => keep = <<i>>
        /\ pc \in {"draw", "respond", "done"} /\ exc = "" /\ Len(boxes) > 0 =>
              /\ Len(final_detections) = Len(keep)
              /\ \A k \in 1..Len(keep) :
                    /\ final_detections[k].conf = scores[keep[k]]
                    /\ final_detections[k].cls_id = class_ids[keep[k]]
                    /\ final_detections[k].x1 = boxes[keep[k]].x1
                    /\ final_detections[k].x2 = boxes[keep[k]].x2

C7_Witness ==
    /\ pc = "respond"
    /\ \E i, j \in 1..Len(boxes) :
          /\ scores[i] > scores[j]
          /\ class_ids[i] # class_ids[j]
          /\ IoUGreaterThan(boxes[i], boxes[j], <<1, 2>>)
          /\ i \in Range(keep)
          /\ j \notin Range(keep)

\* requests whose decoder ran: neither the guard nor a stage before the decoder
\* ended them
DecoderRan ==
    /\ session # "none"
    /\ pc \notin {"request", "read", "infer", "decode"}
    /\ exc \notin {"cannot identify image file", "inference failed"}

\* C8: when the decoder emitted no candidate, nms is not entered, no exception
\* is raised, and the request ends with the detection response: status 200,
\* detection_count 0, empty detections, the image and both sizes, no error field.
C8_NoCandidatesIsSuccess ==
    (DecoderRan /\ Len(boxes) = 0) =>
        /\ run = 0 /\ nms_pc = "idle"
        /\ exc = "" /\ pc # "except"
        /\ final_detections = <<>>
        /\ pc = "done" =>
              /\ response.status_code = 200
              /\ IsDetectionResponse(response)
              /\ response.content.detection_count = 0
              /\ response.content.detections = <<>>
              /\ response.content.image_base64.drawn = <<>>
              /\ response.content.original_size = [width |-> orig_w, height |-> orig_h]
              /\ "error" \notin DOMAIN response.content

C8_Witness ==
    /\ DecoderRan
    /\ pc = "done"
    /\ Len(predictions) >= 2
    /\ Len(boxes) = 0
    /\ response.status_code = 200

\* C9: with no session loaded, a request ends only in the failure response
\* (non-2xx status, an error body, no detection fields), never in a detection
\* response.
C9_NoSessionIsFailure ==
    session = "none" =>
        /\ pc \in {"request", "done"}
        /\ pc = "done" =>
              /\ IsErrorResponse(response)
              /\ ~IsDetectionResponse(response)
              /\ "detection_count" \notin DOMAIN response.content

C9_Witness ==
    /\ session = "none"
    /\ pc = "done"
    /\ response.status_code = 500

\* C10: an exception raised inside predict goes to the handler and yields one
\* error response (error message, non-2xx status) with no detection fields;
\* a finished request has exactly one response, either the full detection
\* response or an error response, and none before it finishes.
C10_OneStructuredOutcome ==
    /\ exc # "" => pc \in {"except", "done"}
    /\ pc # "done" => response = NoResponse
    /\ pc = "done" =>
          \/ IsDetectionResponse(response) /\ ~IsErrorResponse(response) /\ exc = ""
          \/ /\ IsErrorResponse(response) /\ ~IsDetectionResponse(response)
             /\ (exc # "" \/ session = "none")
             /\ exc # "" => response.content.error = exc

C10_Witness ==
    /\ pc = "done"
    /\ exc = "cannot convert float NaN to integer"
    /\ Len(boxes) >= 2
    /\ Len(final_detections) >= 1
    /\ IsErrorResponse(response)

\* C11: draw_boxes completes without raising on every detection list; a
\* detection whose class_id is at or beyond the end of the class table is
\* labelled "class_<id>", one inside it gets the table's name at that index,
\* and the colour is the palette entry at class_id modulo the palette size.
C11_OutOfRangeClassGetsSyntheticLabel ==
    /\ exc = "" /\ pc # "except"
    /\ pc # "draw" =>
          /\ Len(image_with_boxes) = Len(scaled_detections)
          /\ \A i \in 1..Len(image_with_boxes) :
                LET c == scaled_detections[i].cls_id
                    a == image_with_boxes[i]
                IN  /\ c >= 5 => a.label.cls_name = <<"class_", c>>
                    /\ c \in 0..4 => a.label.cls_name = <<class_names[c + 1]>>
                    /\ a.outline = colors[(c % 6) + 1]
                    /\ a.fill = a.outline
                    /\ a.label.conf = scaled_detections[i].conf

C11_Witness ==
    /\ pc = "respond"
    /\ Len(image_with_boxes) = 2
    /\ image_with_boxes[1].cls_id = 99
    /\ image_with_boxes[1].label.cls_name = <<"class_", 99>>
    /\ image_with_boxes[1].outline = "yellow"
    /\ image_with_boxes[2].cls_id = 4
    /\ image_with_boxes[2].label.cls_name = <<"Syndrella">>

\* C12: a coordinate exactly on the model-space boundary maps to the exact
\* image boundary: 0 to 0, and 640 to orig_w (x) or orig_h (y), whatever the
\* image size.
C12_BoundaryMapsToBoundary ==
    pc \in {"draw", "respond"} =>
        /\ Len(scaled_detections) = Len(final_detections)
        /\ \A i \in 1..Len(final_detections) :
              LET f == final_detections[i]
                  d == scaled_detections[i]
              IN  /\ f.x1 = 0 => d.x1 = 0
                  /\ f.x2 = 0 => d.x2 = 0
                  /\ f.y1 = 0 => d.y1 = 0
                  /\ f.y2 = 0 => d.y2 = 0
                  /\ f.x1 = 640 => d.x1 = orig_w
                  /\ f.x2 = 640 => d.x2 = orig_w
                  /\ f.y1 = 640 => d.y1 = orig_h
                  /\ f.y2 = 640 => d.y2 = orig_h

C12_Witness ==
    /\ pc = "draw"
    /\ orig_w = 7 /\ orig_h = 37
    /\ final_detections[1].x1 = 0 /\ final_detections[1].y1 = 0
    /\ final_detections[1].x2 = 640 /\ final_detections[1].y2 = 640
    /\ scaled_detections[1].x1 = 0 /\ scaled_detections[1].y1 = 0
    /\ scaled_detections[1].x2 = 7 /\ scaled_detections[1].y2 = 37

IoUEquals(a, b, t) ==
    /\ ~a.nan /\ ~b.nan
    /\ Union(a, b) > 0
    /\ Intersection(a, b) * t[2] = t[1] * Union(a, b)

\* a round of the nms loop that has remaining boxes to compare with the kept one
NmsRound == nms_pc = "loop" /\ Len(indices) > 1

\* C13 (as stated): in each round of nms the remaining boxes removed are those
\* whose IoU with the kept box is strictly greater than iou_threshold; a box
\* whose IoU with the kept box equals iou_threshold exactly is not removed.
C13_RemovedAreThoseAboveThreshold ==
    [][NmsRound =>
          \A k \in 2..Len(indices) :
              LET current == indices[1]
                  j == indices[k]
              IN  /\ j \notin Range(indices') <=>
                        IoUGreaterThan(boxes[current], boxes[j], iou_threshold)
                  /\ IoUEquals(boxes[current], boxes[j], iou_threshold) =>
                        j \in Range(indices')]_vars

\* C13 (amended): in each round of nms the head of the remaining indices is
\* kept, and the remaining boxes removed are those whose IoU with the kept box
\* is not strictly below iou_threshold (at or above it, or not a number); a box
\* whose IoU with the kept box equals iou_threshold exactly is removed. The
\* boxes that stay keep their order.
C13_RemovedAreThoseNotBelowThreshold ==
    [][NmsRound =>
          /\ keep' = Append(keep, indices[1])
          /\ \A k \in 2..Len(indices) :
                LET current == indices[1]
                    j == indices[k]
                IN  /\ j \notin Range(indices') <=>
                          ~IoULessThan(boxes[current], boxes[j], iou_threshold)
                    /\ IoUEquals(boxes[current], boxes[j], iou_threshold) =>
                          j \notin Range(indices')
          /\ \A m, n \in 1..Len(indices') :
                m < n => \E k, l \in 2..Len(indices) :
                            k < l /\ indices[k] = indices'[m] /\ indices[l] = indices'[n]]_vars

\* after the first round, a box at exactly the threshold with the kept box is gone
C13_Witness ==
    /\ nms_pc = "loop"
    /\ run = 1
    /\ Len(keep) = 1
    /\ \E j \in 1..Len(boxes) :
          /\ j # keep[1]
          /\ IoUEquals(boxes[keep[1]], boxes[j], iou_threshold)
          /\ j \notin Range(indices)
    /\ Len(indices) >= 1

\* what holds of keep and indices throughout a call of nms
C14_KeepWithinInput ==
    /\ Len(keep) <= Len(boxes)
    /\ \A i \in 1..Len(keep) : keep[i] \in 1..Len(boxes)
    /\ \A i, j \in 1..Len(keep) : i # j => keep[i] # keep[j]
    /\ nms_pc = "loop" =>
          /\ Len(keep) + Len(indices) <= Len(boxes)
          /\ Range(keep) \cap Range(indices) = {}
    /\ nms_pc = "ret" =>
          IF Len(boxes) = 0
          THEN keep = <<>>
          ELSE /\ Len(keep) >= 1
               /\ \A k \in 1..Len(scores) : scores[keep[1]] >= scores[k]

\* what one iteration of the loop does
C14_IterationShrinks ==
    (nms_pc = "loop" /\ Len(indices) > 0) =>
        /\ keep' = Append(keep, indices[1])
        /\ \/ nms_pc' = "ret"
           \/ /\ Len(indices') < Len(indices)
              /\ Range(indices') \subseteq Range(Tail(indices))

\* C14: nms terminates for every finite candidate list. Each loop iteration
\* moves the head of the remaining indices into keep and either ends the loop
\* or leaves strictly fewer remaining indices, so there are at most N
\* iterations and keep holds distinct indices of the input; for a non-empty
\* input keep is non-empty and its first element is a highest-scoring
\* candidate, for an empty input the result is empty; every call returns.
C14_NmsTerminates ==
    /\ []C14_KeepWithinInput
    /\ [][C14_IterationShrinks]_vars
    /\ (nms_pc = "entry") ~> (nms_pc = "ret")

\* a call on three candidates of different scores that took two iterations
C14_Witness ==
    /\ nms_pc = "ret"
    /\ run = 1
    /\ Len(boxes) = 3
    /\ Len(keep) = 2
    /\ \E k \in 1..Len(scores) : scores[k] < scores[keep[1]]

====
